---- MODULE Spec2Model ----
(***************************************************************************)
(* Model of the "reviews" subgraph fixture                                  *)
(* (scripts/router-e2e-defer-tests/subgraphs/reviews): the module-level     *)
(* start-up script of app.py, setup_tracing of tracing.py and the resolvers *)
(* of schema.py, followed by the request-serving phase.                     *)
(***************************************************************************)
EXTENDS Integers, Sequences, FiniteSets, TLC

VARIABLES
    environ,            \* os.environ: function from the set variables to their string values
    reviews,            \* schema.reviews, the module-level list of Review objects
    schema_extensions,  \* schema.extensions (constructed as [] in schema.py)
    tracer_provider,    \* process-wide tracer provider (trace.set_tracer_provider)
    app_instrumented,   \* StarletteInstrumentor().instrument_app(app) has run
    routes,             \* app.routes, in registration order
    stdout,             \* lines printed by setup_tracing
    setup_calls,        \* number of invocations of setup_tracing
    lastResponse,       \* per path, the query last served there and its response
    pc                  \* position of the process in app.py / its life cycle

vars == <<environ, reviews, schema_extensions, tracer_provider, app_instrumented,
          routes, stdout, setup_calls, lastResponse, pc>>

(***************************************************************************)
(* Bounds of the model                                                      *)
(***************************************************************************)
MaxId == 3

QueryIds == (-1 .. MaxId) \cup {999}

ProductKeys == {"apollo-federation", "apollo-studio", "apollo-router", ""}

TypeValues == {"", "zipkin", "collector", "jaeger", "Zipkin"}

HostValues == {"localhost", "otel-collector"}

PortValues == {"9411", "4318"}

Paths == {"/", "/graphql"}

(***************************************************************************)
(* Python values                                                            *)
(***************************************************************************)
None == [none |-> TRUE]

PyStr(s) == [type |-> "str", val |-> s]

PyInt(n) == [type |-> "int", val |-> n]

PyNone == [type |-> "NoneType"]

\* truth value of an object, as tested by `if`
Truthy(v) ==
    CASE v.type = "NoneType" -> FALSE
      [] v.type = "str" -> v.val # ""
      [] v.type = "int" -> v.val # 0

\* str() of an object, as an f-string replacement field formats it
Format(v) ==
    CASE v.type = "str" -> v.val
      [] v.type = "int" -> ToString(v.val)
      [] v.type = "NoneType" -> "None"

\* os.environ.get(name, default)
EnvGet(name, default) ==
    IF name \in DOMAIN environ THEN PyStr(environ[name]) ELSE default

EnvNames == {"APOLLO_OTEL_EXPORTER_TYPE", "APOLLO_OTEL_EXPORTER_HOST",
             "APOLLO_OTEL_EXPORTER_PORT"}

EnvValues(name) ==
    CASE name = "APOLLO_OTEL_EXPORTER_TYPE" -> TypeValues
      [] name = "APOLLO_OTEL_EXPORTER_HOST" -> HostValues
      [] name = "APOLLO_OTEL_EXPORTER_PORT" -> PortValues

Environs ==
    UNION { { e \in [D -> TypeValues \cup HostValues \cup PortValues] :
                \A n \in D : e[n] \in EnvValues(n) } : D \in SUBSET EnvNames }

(***************************************************************************)
(* schema.py                                                                *)
(***************************************************************************)
Review(id, body, product_id) == [id |-> id, body |-> body, product_id |-> product_id]

\* Review with product_id declared as a plain str field
ReviewFieldsPublic == {"id", "body", "product_id"}

\* the fields of Review that are part of the GraphQL type: product_id is
\* declared strawberry.Private and is left out of the schema
ReviewFields == {"id", "body"}

SeedReviews ==
    << Review(1, "A review for Apollo Federation", "apollo-federation"),
       Review(2, "A review for Apollo Studio", "apollo-studio") >>

\* the filter testing the truth of r.product_id instead of comparing it
get_reviews_unfiltered(root) == SelectSeq(reviews, LAMBDA r : r.product_id # "")

\* list(filter(lambda r: r.product_id == root.id, reviews))
get_reviews(root) == SelectSeq(reviews, LAMBDA r : r.product_id = root.id)

\* the float literal 4.6, kept as the decimal fraction 46/10
ReviewsScore == [num |-> 46, den |-> 10]

Product(id, reviews_count, reviews_score) ==
    [id |-> id, reviews_count |-> reviews_count, reviews_score |-> reviews_score]

\* the stub counting the reviews of the product instead of the placeholder
resolve_reference_counted(id) ==
    Product(id, Len(SelectSeq(reviews, LAMBDA r : r.product_id = id)), ReviewsScore)

resolve_reference(id) == Product(id, 3, ReviewsScore)

RECURSIVE FirstFrom(_, _)
\* next() of the generator (r for r in reviews if r.id == id), from position i
FirstFrom(i, id) ==
    IF i > Len(reviews) THEN None
    ELSE IF reviews[i].id = id THEN reviews[i]
    ELSE FirstFrom(i + 1, id)

\* the id used as a position in the list
review_by_index(id) ==
    IF id + 1 \in 1 .. Len(reviews) THEN reviews[id + 1] ELSE None

\* Query.review: next((r for r in reviews if r.id == id), None)
review(id) == FirstFrom(1, id)


\* a Review as the GraphQL layer returns it: the fields of the GraphQL type
Serialize(r) == [f \in ReviewFields |-> r[f]]

SerializeAll(rs) == [i \in 1 .. Len(rs) |-> Serialize(rs[i])]

\* the operations the router sends: the query field review(id) and the
\* federation lookup of a Product by its key, with its reviews field
Queries == { [review |-> n] : n \in QueryIds } \cup { [entities |-> k] : k \in ProductKeys }

Execute(q) ==
    IF "review" \in DOMAIN q
    THEN LET r == review(q.review)
         IN  IF r = None THEN None ELSE Serialize(r)
    ELSE LET p == resolve_reference(q.entities)
         IN  [id |-> p.id, reviews_count |-> p.reviews_count,
              reviews_score |-> p.reviews_score,
              reviews |-> SerializeAll(get_reviews(p))]

(***************************************************************************)
(* tracing.py                                                               *)
(***************************************************************************)
\* the selector left unchecked
TracerTypeUnchecked(tracer_type) == TRUE

\* assert tracer_type in {"zipkin", "collector"}
TracerTypeAsserted(tracer_type) ==
    /\ tracer_type.type = "str"
    /\ tracer_type.val \in {"zipkin", "collector"}

\* endpoint = f"http://{host}:{port}<path>"
Endpoint(path) ==
    LET host == EnvGet("APOLLO_OTEL_EXPORTER_HOST", PyStr("localhost"))
        port == EnvGet("APOLLO_OTEL_EXPORTER_PORT", PyInt(9411))
    IN  "http://" \o Format(host) \o ":" \o Format(port) \o path

\* the span processors added by the branch `if tracer_type == "zipkin"`
ZipkinProcessors(tracer_type) ==
    IF tracer_type.type = "str" /\ tracer_type.val = "zipkin"
    THEN << [processor |-> "SimpleSpanProcessor", exporter |-> "ZipkinExporter",
             endpoint |-> Endpoint("/api/v2/spans")] >>
    ELSE << >>

ZipkinPrints(tracer_type) ==
    IF tracer_type.type = "str" /\ tracer_type.val = "zipkin"
    THEN << "Tracing enabled with Zipkin exporter" >>
    ELSE << >>

\* the collector branch as a verbatim copy of the zipkin branch
CollectorProcessorsCopied(tracer_type) ==
    IF tracer_type.type = "str" /\ tracer_type.val = "collector"
    THEN << [processor |-> "SimpleSpanProcessor", exporter |-> "ZipkinExporter",
             endpoint |-> Endpoint("/api/v2/spans")] >>
    ELSE << >>

\* the span processors added by the branch `if tracer_type == "collector"`
CollectorProcessors(tracer_type) ==
    IF tracer_type.type = "str" /\ tracer_type.val = "collector"
    THEN << [processor |-> "BatchSpanProcessor", exporter |-> "OTLPSpanExporter",
             endpoint |-> Endpoint("/v1/traces")] >>
    ELSE << >>

CollectorPrints(tracer_type) ==
    IF tracer_type.type = "str" /\ tracer_type.val = "collector"
    THEN << "Tracing enabled with Collector exporter" >>
    ELSE << >>

\* setup_tracing with the assertion placed after the registrations
SetupTracingLateAssert ==
    /\ pc = "setup_tracing"
    /\ setup_calls' = setup_calls + 1
    /\ LET tracer_type == EnvGet("APOLLO_OTEL_EXPORTER_TYPE", PyNone)
       IN  /\ tracer_provider' =
                 [resource |-> "reviews",
                  processors |-> ZipkinProcessors(tracer_type)
                                     \o CollectorProcessors(tracer_type)]
           /\ stdout' = stdout \o ZipkinPrints(tracer_type) \o CollectorPrints(tracer_type)
           /\ schema_extensions' = Append(schema_extensions, "OpenTelemetryExtension")
           /\ app_instrumented' = TRUE
           /\ pc' = IF TracerTypeAsserted(tracer_type) THEN "serving" ELSE "aborted"
    /\ UNCHANGED <<environ, reviews, routes, lastResponse>>

\* setup_tracing(schema, app), called from app.py; an AssertionError raised
\* in it propagates out of the import of app.py and ends start-up
SetupTracing ==
    /\ pc = "setup_tracing"
    /\ setup_calls' = setup_calls + 1
    /\ LET tracer_type == EnvGet("APOLLO_OTEL_EXPORTER_TYPE", PyNone)
       IN  IF ~TracerTypeAsserted(tracer_type)
           THEN /\ pc' = "aborted"
                /\ UNCHANGED <<tracer_provider, schema_extensions, app_instrumented, stdout>>
           ELSE /\ tracer_provider' =
                      [resource |-> "reviews",
                       processors |-> ZipkinProcessors(tracer_type)
                                          \o CollectorProcessors(tracer_type)]
                /\ stdout' = stdout \o ZipkinPrints(tracer_type) \o CollectorPrints(tracer_type)
                /\ schema_extensions' = Append(schema_extensions, "OpenTelemetryExtension")
                /\ app_instrumented' = TRUE
                /\ pc' = "serving"
    /\ UNCHANGED <<environ, reviews, routes, lastResponse>>

(***************************************************************************)
(* app.py                                                                   *)
(***************************************************************************)
NoResponse == [query |-> None, response |-> None]

Init ==
    /\ environ \in Environs
    /\ reviews = SeedReviews
    /\ schema_extensions = << >>
    /\ tracer_provider = None
    /\ app_instrumented = FALSE
    /\ routes = << >>
    /\ stdout = << >>
    /\ setup_calls = 0
    /\ lastResponse = [p \in Paths |-> NoResponse]
    /\ pc = "add_route_root"

\* app.add_route("/", graphql_app)
AddRouteRoot ==
    /\ pc = "add_route_root"
    /\ routes' = Append(routes, [path |-> "/", endpoint |-> "graphql_app"])
    /\ pc' = "add_route_graphql"
    /\ UNCHANGED <<environ, reviews, schema_extensions, tracer_provider,
                   app_instrumented, stdout, setup_calls, lastResponse>>

\* the second route registered under a misspelt path
AddRouteGraphqlMisspelt ==
    /\ pc = "add_route_graphql"
    /\ routes' = Append(routes, [path |-> "/graphq", endpoint |-> "graphql_app"])
    /\ pc' = "check_env"
    /\ UNCHANGED <<environ, reviews, schema_extensions, tracer_provider,
                   app_instrumented, stdout, setup_calls, lastResponse>>

\* app.add_route("/graphql", graphql_app)
AddRouteGraphql ==
    /\ pc = "add_route_graphql"
    /\ routes' = Append(routes, [path |-> "/graphql", endpoint |-> "graphql_app"])
    /\ pc' = "check_env"
    /\ UNCHANGED <<environ, reviews, schema_extensions, tracer_provider,
                   app_instrumented, stdout, setup_calls, lastResponse>>

\* the flag tested for presence instead of truth
EnvFlagPresent == "APOLLO_OTEL_EXPORTER_TYPE" \in DOMAIN environ

\* the condition of `if os.environ.get("APOLLO_OTEL_EXPORTER_TYPE"):`
EnvFlag == Truthy(EnvGet("APOLLO_OTEL_EXPORTER_TYPE", PyNone))

\* the `if` of app.py: import and call setup_tracing, or finish the import
\* with tracing left alone
CheckEnv ==
    /\ pc = "check_env"
    /\ pc' = IF EnvFlag THEN "setup_tracing" ELSE "serving"
    /\ UNCHANGED <<environ, reviews, schema_extensions, tracer_provider,
                   app_instrumented, routes, stdout, setup_calls, lastResponse>>

RECURSIVE MatchFrom(_, _)
\* the first registered route whose path is the request's path
MatchFrom(i, path) ==
    IF i > Len(routes) THEN None
    ELSE IF routes[i].path = path THEN routes[i]
    ELSE MatchFrom(i + 1, path)

\* the application's answer to a GraphQL request sent to a path
Handle(path, q) ==
    LET route == MatchFrom(1, path)
    IN  IF route = None
        THEN [status |-> 404, data |-> None]
        ELSE [status |-> 200, data |-> Execute(q)]

\* a request that installs the tracing extension while it is served
RequestInstalling(path, q) ==
    /\ pc = "serving"
    /\ lastResponse' = [lastResponse EXCEPT
                           ![path] = [query |-> q, response |-> Handle(path, q)]]
    /\ schema_extensions' = IF schema_extensions = << >>
                            THEN << "OpenTelemetryExtension" >>
                            ELSE schema_extensions
    /\ UNCHANGED <<environ, reviews, tracer_provider,
                   app_instrumented, routes, stdout, setup_calls, pc>>

\* one request served by the application once the module is imported
Request(path, q) ==
    /\ pc = "serving"
    /\ lastResponse' = [lastResponse EXCEPT
                           ![path] = [query |-> q, response |-> Handle(path, q)]]
    /\ UNCHANGED <<environ, reviews, schema_extensions, tracer_provider,
                   app_instrumented, routes, stdout, setup_calls, pc>>

Serve == \E path \in Paths, q \in Queries : Request(path, q)

Next ==
    \/ AddRouteRoot
    \/ AddRouteGraphql
    \/ CheckEnv
    \/ SetupTracing
    \/ Serve

Spec == Init /\ [][Next]_vars

(***************************************************************************)
(* Properties                                                               *)
(***************************************************************************)
TypeSet == "APOLLO_OTEL_EXPORTER_TYPE" \in DOMAIN environ

Selected(t) == TypeSet /\ environ["APOLLO_OTEL_EXPORTER_TYPE"] = t

Disabled == ~TypeSet \/ Selected("")

Recognised == Selected("zipkin") \/ Selected("collector")

Unrecognised == TypeSet /\ ~Selected("") /\ ~Recognised

Served(path) == lastResponse[path] # NoResponse

\* positions of the reviews with a given id / a given product key
IdHits(n) == { i \in 1 .. Len(reviews) : reviews[i].id = n }

KeyHits(k) == { i \in 1 .. Len(reviews) : reviews[i].product_id = k }

Least(S) == CHOOSE i \in S : \A j \in S : i <= j

Visible(r) == [id |-> r.id, body |-> r.body]

\* C1: review(id) is the first Review of the collection whose id is the
\* argument and None when there is none; review(1) has the body "A review for
\* Apollo Federation", review(999) is None; a served review query answers
\* with exactly that and never with an error.
C1_ReviewLookup ==
    /\ \A n \in QueryIds :
          IF IdHits(n) = {} THEN review(n) = None
          ELSE review(n) = reviews[Least(IdHits(n))]
    /\ review(1) # None
    /\ review(1) = Review(1, "A review for Apollo Federation", "apollo-federation")
    /\ review(999) = None
    /\ \A p \in Paths :
          LET e == lastResponse[p]
          IN  "review" \in DOMAIN e.query =>
                 /\ e.response.status = 200
                 /\ e.response.data =
                       IF IdHits(e.query.review) = {} THEN None
                       ELSE Visible(reviews[Least(IdHits(e.query.review))])

C1_Witness ==
    /\ lastResponse["/"].query = [review |-> 1]
    /\ lastResponse["/"].response.data =
           [id |-> 1, body |-> "A review for Apollo Federation"]
    /\ lastResponse["/graphql"].query = [review |-> 999]
    /\ lastResponse["/graphql"].response.data = None

\* C2: get_reviews(p) is exactly the Reviews whose product_id is p.id, each
\* once, in the order of the collection; empty when none matches; for
\* "apollo-federation" it is the one review with id 1.
C2_ReviewsOfProduct ==
    /\ \A k \in ProductKeys :
          LET res == get_reviews(resolve_reference(k))
          IN  /\ Len(res) = Cardinality(KeyHits(k))
              /\ \A j \in 1 .. Len(res) : \E i \in KeyHits(k) : res[j] = reviews[i]
              /\ \A i \in KeyHits(k) : \E j \in 1 .. Len(res) : res[j] = reviews[i]
              /\ \A j1, j2 \in 1 .. Len(res) :
                    j1 < j2 =>
                       \E i1, i2 \in KeyHits(k) :
                          /\ i1 < i2
                          /\ res[j1] = reviews[i1]
                          /\ res[j2] = reviews[i2]
              /\ (KeyHits(k) = {} => res = << >>)
    /\ get_reviews(resolve_reference("apollo-federation")) = << reviews[1] >>
    /\ reviews[1].id = 1
    /\ \A p \in Paths :
          LET e == lastResponse[p]
          IN  "entities" \in DOMAIN e.query =>
                 /\ e.response.status = 200
                 /\ Len(e.response.data.reviews) = Cardinality(KeyHits(e.query.entities))
                 /\ \A j \in 1 .. Len(e.response.data.reviews) :
                       \E i \in KeyHits(e.query.entities) :
                          e.response.data.reviews[j] = Visible(reviews[i])

C2_Witness ==
    /\ lastResponse["/"].query = [entities |-> "apollo-federation"]
    /\ lastResponse["/"].response.data.reviews =
           << [id |-> 1, body |-> "A review for Apollo Federation"] >>
    /\ lastResponse["/graphql"].query = [entities |-> "apollo-router"]
    /\ lastResponse["/graphql"].response.data.reviews = << >>

\* C3: resolve_reference(key) returns, for every key, a Product whose id is
\* the key, whose reviews_count is 3 and whose reviews_score is 4.6.
C3_ResolveReference ==
    /\ \A k \in ProductKeys :
          resolve_reference(k) =
             [id |-> k, reviews_count |-> 3, reviews_score |-> [num |-> 46, den |-> 10]]
    /\ \A p \in Paths :
          LET e == lastResponse[p]
          IN  "entities" \in DOMAIN e.query =>
                 /\ e.response.status = 200
                 /\ e.response.data.id = e.query.entities
                 /\ e.response.data.reviews_count = 3
                 /\ e.response.data.reviews_score = [num |-> 46, den |-> 10]

C3_Witness ==
    /\ lastResponse["/graphql"].query = [entities |-> "apollo-studio"]
    /\ lastResponse["/graphql"].response.data.reviews_count = 3
    /\ lastResponse["/"].query = [entities |-> ""]
    /\ lastResponse["/"].response.data.reviews_count = 3
    /\ lastResponse["/"].response.data.reviews = << >>

ExpectedHost ==
    IF "APOLLO_OTEL_EXPORTER_HOST" \in DOMAIN environ
    THEN environ["APOLLO_OTEL_EXPORTER_HOST"] ELSE "localhost"

ExpectedPort ==
    IF "APOLLO_OTEL_EXPORTER_PORT" \in DOMAIN environ
    THEN environ["APOLLO_OTEL_EXPORTER_PORT"] ELSE "9411"

NoOverrides == DOMAIN environ = {"APOLLO_OTEL_EXPORTER_TYPE"}

Processors == IF tracer_provider = None THEN << >> ELSE tracer_provider.processors

\* C4: with a recognised selector, setup_tracing attaches exactly one span
\* processor: "zipkin" a simple processor exporting to
\* http://{host}:{port}/api/v2/spans, "collector" a batching processor
\* exporting to http://{host}:{port}/v1/traces, host and port defaulting to
\* localhost and 9411 for both.
C4_ExporterSelection ==
    (Recognised /\ setup_calls >= 1) =>
       /\ Len(Processors) = 1
       /\ Selected("zipkin") =>
             /\ Processors[1].processor = "SimpleSpanProcessor"
             /\ Processors[1].exporter = "ZipkinExporter"
             /\ Processors[1].endpoint =
                   "http://" \o ExpectedHost \o ":" \o ExpectedPort \o "/api/v2/spans"
             /\ NoOverrides =>
                   Processors[1].endpoint = "http://localhost:9411/api/v2/spans"
       /\ Selected("collector") =>
             /\ Processors[1].processor = "BatchSpanProcessor"
             /\ Processors[1].exporter = "OTLPSpanExporter"
             /\ Processors[1].endpoint =
                   "http://" \o ExpectedHost \o ":" \o ExpectedPort \o "/v1/traces"
             /\ NoOverrides =>
                   Processors[1].endpoint = "http://localhost:9411/v1/traces"

C4_Witness ==
    /\ Selected("collector")
    /\ NoOverrides
    /\ setup_calls = 1
    /\ Processors = << [processor |-> "BatchSpanProcessor", exporter |-> "OTLPSpanExporter",
                        endpoint |-> "http://localhost:9411/v1/traces"] >>

\* C5: with a non-empty selector other than "zipkin" and "collector" the
\* start-up aborts in setup_tracing: the serving phase is never reached and no
\* request is answered on either path.
C5_UnrecognisedAborts ==
    Unrecognised =>
       /\ pc \in {"add_route_root", "add_route_graphql", "check_env",
                  "setup_tracing", "aborted"}
       /\ setup_calls >= 1 => pc = "aborted"
       /\ \A p \in Paths : ~Served(p)

C5_Witness ==
    /\ Selected("jaeger")
    /\ setup_calls = 1
    /\ pc = "aborted"

\* C6: with the selector absent or empty, setup_tracing is never invoked, no
\* span processor exists, no tracer provider is registered, the extension list
\* stays empty, the app is not instrumented, and start-up does not fail.
C6_DisabledNoOp ==
    Disabled =>
       /\ setup_calls = 0
       /\ tracer_provider = None
       /\ Processors = << >>
       /\ schema_extensions = << >>
       /\ ~app_instrumented
       /\ stdout = << >>
       /\ pc \in {"add_route_root", "add_route_graphql", "check_env", "serving"}

C6_Witness ==
    /\ Selected("")
    /\ pc = "serving"
    /\ setup_calls = 0
    /\ Served("/")
    /\ ~Served("/graphql")

\* C7: the tracer provider is registered and the tracing extension appended
\* at most once each, in setup_tracing during start-up and before any request
\* is answered; a step of the serving phase changes neither the Review
\* collection, nor the extension list, nor the registered provider.
C7_WrittenOnlyAtStartup ==
    [][ /\ tracer_provider' # tracer_provider =>
              /\ pc = "setup_tracing"
              /\ tracer_provider = None
              /\ \A p \in Paths : ~Served(p)
        /\ schema_extensions' # schema_extensions =>
              /\ pc = "setup_tracing"
              /\ schema_extensions = << >>
              /\ Len(schema_extensions') = 1
              /\ \A p \in Paths : ~Served(p)
        /\ reviews' = reviews
        /\ pc = "serving" =>
              /\ pc' = "serving"
              /\ UNCHANGED <<reviews, schema_extensions, tracer_provider>> ]_vars

C7_Witness ==
    /\ pc = "serving"
    /\ tracer_provider # None
    /\ schema_extensions = << "OpenTelemetryExtension" >>
    /\ "review" \in DOMAIN lastResponse["/"].query
    /\ "entities" \in DOMAIN lastResponse["/graphql"].query

\* C8: in the serving phase every query gets the same response on / and on
\* /graphql, with tracing disabled or enabled with either exporter.
C8_PathsEquivalent ==
    /\ pc = "serving" => \A q \in Queries : Handle("/", q) = Handle("/graphql", q)
    /\ (Served("/") /\ Served("/graphql")
          /\ lastResponse["/"].query = lastResponse["/graphql"].query)
       => lastResponse["/"].response = lastResponse["/graphql"].response
    /\ \A p \in Paths : Served(p) => lastResponse[p].response.status = 200

C8_Witness ==
    /\ Selected("zipkin")
    /\ app_instrumented
    /\ lastResponse["/"].query = [review |-> 2]
    /\ lastResponse["/graphql"].query = [review |-> 2]
    /\ lastResponse["/"].response = lastResponse["/graphql"].response
    /\ lastResponse["/"].response.data # None

ReviewsIn(q, data) ==
    IF "review" \in DOMAIN q
    THEN IF data = None THEN {} ELSE {data}
    ELSE { data.reviews[i] : i \in 1 .. Len(data.reviews) }

\* C9: every Review in a response, from review(id) or from a Product's
\* reviews field, carries the fields id and body and no product_id.
C9_ProductKeyHidden ==
    /\ \A q \in Queries : \A r \in ReviewsIn(q, Execute(q)) : DOMAIN r = {"id", "body"}
    /\ \A p \in Paths :
          Served(p) =>
             \A r \in ReviewsIn(lastResponse[p].query, lastResponse[p].response.data) :
                /\ "product_id" \notin DOMAIN r
                /\ DOMAIN r = {"id", "body"}

C9_Witness ==
    /\ lastResponse["/"].query = [entities |-> "apollo-studio"]
    /\ lastResponse["/"].response.data.reviews =
           << [id |-> 2, body |-> "A review for Apollo Studio"] >>
    /\ lastResponse["/graphql"].query = [review |-> 2]
    /\ lastResponse["/graphql"].response.data = [id |-> 2, body |-> "A review for Apollo Studio"]

AllAbsent ==
    /\ tracer_provider = None
    /\ schema_extensions = << >>
    /\ ~app_instrumented

AllPresent ==
    /\ tracer_provider # None
    /\ Len(Processors) = 1
    /\ schema_extensions = << "OpenTelemetryExtension" >>
    /\ app_instrumented

SetupReturned == setup_calls = 1 /\ pc = "serving"

\* C10: the provider registration, the tracing extension and the app
\* instrumentation are all absent, or setup_tracing has returned and all are
\* present with exactly one span processor; after an abort on an unrecognised
\* selector all are absent.
C10_AllOrNothing ==
    /\ AllAbsent \/ (SetupReturned /\ AllPresent)
    /\ SetupReturned => AllPresent
    /\ pc = "aborted" => (AllAbsent /\ Processors = << >> /\ Unrecognised)

C10_Witness ==
    /\ Selected("Zipkin")
    /\ pc = "aborted"
    /\ setup_calls = 1
    /\ AllAbsent

====
